---- MODULE Spec2Model ----
(***************************************************************************)
(* Covered-call backtest of src/main.py: the day-by-day simulation loop    *)
(* (lines 78-117), the result preparation (lines 123-128) and the          *)
(* performance metrics (lines 147-158).                                    *)
(*                                                                         *)
(* Dates are day numbers of a non-leap year (1 = Jan 1, 32 = Feb 1,        *)
(* 60 = Mar 1, 91 = Apr 1).  Money is kept in 1/10000 dollar so that the   *)
(* strike S * 1.05 and the tabulated premiums are exact integers; prices   *)
(* are whole dollars and volatilities whole percents.                      *)
(***************************************************************************)
EXTENDS Integers, Sequences, FiniteSets

\* ---------------------------------------------------------------- bounds
MaxDays == 4
LastDate == 91

\* ------------------------------------------------------ program constants
shares_per_contract == 100
ExpirationDays == 30
StrikePct == 105
window_size == 30

Unit == 100 * 100

\* the inputs: rows of data_df (Date, Price, Volatility) after dropna
StartDates == {31, 32}
Gaps == {1, 28, 30}
Prices == {100, 105, 120}
Vols == {0, 20}

\* the dates the row after a row dated d may have: the next calendar day, or
\* a longer gap that ends by LastDate
NextDates(d) == {d + g : g \in {h \in Gaps : h = 1 \/ d + h <= LastDate}}

\* rows left by rolling(window=window_size).std() and dropna(): the first
\* return is NaN and the first window_size - 1 windows are incomplete
RowsAfterDropna(n) == IF n >= window_size + 1 THEN n - window_size ELSE 0

\* number of closing prices downloaded
PriceCounts == (window_size - 1)..(window_size + MaxDays)

\* ---------------------------------------------------------------- calendar
MonthStart == <<1, 32, 60, 91, 121, 152>>

MonthOf(d) == CHOOSE m \in 1..(Len(MonthStart) - 1) :
                 MonthStart[m] <= d /\ d < MonthStart[m + 1]

\* index of data_df.resample('MS').first(): one label per calendar month,
\* the label being the month's first calendar day
monthly_dates == {MonthStart[m] : m \in 1..(Len(MonthStart) - 1)}

\* the volatilities a row dated d may carry: sigma is used only by the
\* pricing call of a roll date, so the rows of other days carry one value
VolsOn(d) == IF d \in monthly_dates THEN Vols ELSE {20}

\* ------------------------------------------------------------ pure helpers
\* cash + shares * S
PortfolioValPerContract(c, sh, s) == c + shares_per_contract * s * Unit

PortfolioValBare(c, sh, s) == sh * s * Unit

PortfolioVal(c, sh, s) == c + sh * s * Unit

\* current_date >= pos['expiration_date']
IsDueStrict(d, pos) == d > pos.expiration_date

IsDueEarly(d, pos) == d + 1 >= pos.expiration_date

IsDueAlways(d, pos) == TRUE

IsDue(d, pos) == d >= pos.expiration_date

\* S > K
InTheMoneyOrEqual(s, K) == s * Unit >= K

InTheMoney(s, K) == s * Unit > K

\* body of "for pos in positions" for one pos
ExpireOneSubtract(c, sh, pos, d, s) ==
    IF IsDue(d, pos)
    THEN IF InTheMoney(s, pos.K)
         THEN [cash |-> c + sh * pos.K, shares |-> sh - shares_per_contract,
               remove |-> TRUE]
         ELSE [cash |-> c, shares |-> sh, remove |-> TRUE]
    ELSE [cash |-> c, shares |-> sh, remove |-> FALSE]

ExpireOneLapseKept(c, sh, pos, d, s) ==
    IF IsDue(d, pos) /\ InTheMoney(s, pos.K)
    THEN [cash |-> c + sh * pos.K, shares |-> 0, remove |-> TRUE]
    ELSE [cash |-> c, shares |-> sh, remove |-> FALSE]

ExpireOneKeepShares(c, sh, pos, d, s) ==
    IF IsDue(d, pos)
    THEN IF InTheMoney(s, pos.K)
         THEN [cash |-> c + sh * pos.K, shares |-> sh, remove |-> TRUE]
         ELSE [cash |-> c, shares |-> sh, remove |-> TRUE]
    ELSE [cash |-> c, shares |-> sh, remove |-> FALSE]

ExpireOne(c, sh, pos, d, s) ==
    IF IsDue(d, pos)
    THEN IF InTheMoney(s, pos.K)
         THEN [cash |-> c + sh * pos.K, shares |-> 0, remove |-> TRUE]
         ELSE [cash |-> c, shares |-> sh, remove |-> TRUE]
    ELSE [cash |-> c, shares |-> sh, remove |-> FALSE]

\* list.remove(x): drops the first element equal to x
RECURSIVE ListRemove(_, _)
ListRemove(ps, x) ==
    IF ps = <<>> THEN <<>>
    ELSE IF Head(ps) = x THEN Tail(ps)
    ELSE <<Head(ps)>> \o ListRemove(Tail(ps), x)

\* "for pos in positions_to_remove: positions.remove(pos)"
RemoveExpiredFirstOnly(ps, rem) ==
    IF rem = <<>> THEN ps ELSE ListRemove(ps, Head(rem))

RECURSIVE RemoveExpired(_, _)
RemoveExpired(ps, rem) ==
    IF rem = <<>> THEN ps
    ELSE RemoveExpired(ListRemove(ps, Head(rem)), Tail(rem))

\* the whole expiration check of one day: lines 88-101
RECURSIVE ExpireLoop(_, _, _, _, _, _, _)
ExpireLoop(c, sh, ps, k, rem, d, s) ==
    IF k > Len(ps)
    THEN [cash |-> c, shares |-> sh, positions |-> RemoveExpired(ps, rem)]
    ELSE LET r == ExpireOne(c, sh, ps[k], d, s)
         IN  ExpireLoop(r.cash, r.shares, ps, k + 1,
                        IF r.remove THEN Append(rem, ps[k]) ELSE rem, d, s)

ResolveExpirations(c, sh, ps, d, s) == ExpireLoop(c, sh, ps, 1, <<>>, d, s)

\* "if shares == 0: shares = shares_per_contract; cash -= shares * S"
AcquireSharesAlways(c, sh, s) ==
    [shares |-> sh + shares_per_contract,
     cash |-> c - shares_per_contract * s * Unit]

AcquireSharesFree(c, sh, s) ==
    IF sh = 0
    THEN [shares |-> shares_per_contract, cash |-> c]
    ELSE [shares |-> sh, cash |-> c]

AcquireShares(c, sh, s) ==
    IF sh = 0
    THEN [shares |-> shares_per_contract,
          cash |-> c - shares_per_contract * s * Unit]
    ELSE [shares |-> sh, cash |-> c]

\* K = S * 1.05
Strike(s) == (s * StrikePct * Unit) \div 100

\* black_scholes_call(S, K, T, r, sigma) * shares_per_contract with
\* K = 1.05 S, T = 30/252, r = 0.01: the price is S * f(sigma);
\* f(0.20) = 0.010269, and sigma = 0 gives d1 = d2 = -inf, a price of 0
PremiumRate(sg) == IF sg = 0 THEN 0 ELSE 10269

CallPremium(s, sg) == s * PremiumRate(sg)

\* current_date + pd.Timedelta(days=30)
ExpirationDate(d) == d + ExpirationDays

RECURSIVE SumAmounts(_)
SumAmounts(q) == IF q = <<>> THEN 0 ELSE Head(q).amount + SumAmounts(Tail(q))

Last(q) == q[Len(q)]

\* ------------------------------------------------------------ metrics
\* numpy float64 division: a zero divisor gives nan or +-inf, no exception
NpDiv(a, b) ==
    IF b = 0
    THEN IF a = 0 THEN [kind |-> "nan"]
         ELSE IF a > 0 THEN [kind |-> "inf"] ELSE [kind |-> "-inf"]
    ELSE [kind |-> "num", num |-> a, den |-> b]

\* (1 + ret) ** (1 / years) - 1 for years > 0; the exponent 365.25 / days is
\* never an integer, so a negative base gives nan and -inf gives inf
Annualize(ret) ==
    IF ret.kind = "nan" THEN [kind |-> "nan"]
    ELSE IF ret.kind \in {"inf", "-inf"} THEN [kind |-> "inf"]
    ELSE IF (ret.den > 0 /\ ret.den + ret.num < 0)
            \/ (ret.den < 0 /\ ret.den + ret.num > 0)
         THEN [kind |-> "nan"]
         ELSE [kind |-> "num"]

\* ------------------------------------------------------------------- state
VARIABLES
    n_prices,           \* number of closing prices in the downloaded series
    data_df,            \* rows of data_df the loop has reached so far
    current_date, S, sigma,
    cash, shares, portfolio_value, dates, positions,
    positions_to_remove, k,       \* inner loop over positions
    pc,
    covered_call_return, buy_and_hold_return, days,
    annualized_covered_call_return, annualized_buy_and_hold_return,
    fault,
    \* history
    act,                \* the step taken last
    prev,               \* cash, shares, positions before that step
    day_end,            \* cash, shares, positions when the previous day's
                        \* step finished
    day_steps,          \* phases of the current day's step passed so far
    pre_roll_shares,    \* shares just before the roll's acquisition
    premiums            \* premiums received: [date, amount]

vars == <<n_prices, data_df, current_date, S, sigma, cash, shares, portfolio_value,
          dates, positions, positions_to_remove, k, pc,
          covered_call_return, buy_and_hold_return, days,
          annualized_covered_call_return, annualized_buy_and_hold_return,
          fault, act, prev, day_end, day_steps, pre_roll_shares, premiums>>

loopVars == <<cash, shares, portfolio_value, dates, positions>>
metricVars == <<covered_call_return, buy_and_hold_return, days,
                annualized_covered_call_return,
                annualized_buy_and_hold_return, fault>>
dayVars == <<n_prices, data_df, current_date, S, sigma>>

Book == [cash |-> cash, shares |-> shares, positions |-> positions]

Init ==
    /\ n_prices \in PriceCounts
    /\ data_df = <<>>
    /\ current_date = 0 /\ S = 0 /\ sigma = 0
    /\ cash = 0
    /\ shares = 0
    /\ portfolio_value = <<>>
    /\ dates = <<>>
    /\ positions = <<>>
    /\ positions_to_remove = <<>>
    /\ k = 1
    /\ pc = "loop"
    /\ covered_call_return = [kind |-> "unset"]
    /\ buy_and_hold_return = [kind |-> "unset"]
    /\ days = -1
    /\ annualized_covered_call_return = [kind |-> "unset"]
    /\ annualized_buy_and_hold_return = [kind |-> "unset"]
    /\ fault = "none"
    /\ act = "Init"
    /\ prev = [cash |-> 0, shares |-> 0, positions |-> <<>>]
    /\ day_end = [cash |-> 0, shares |-> 0, positions |-> <<>>]
    /\ day_steps = <<>>
    /\ pre_roll_shares = 0
    /\ premiums = <<>>

\* ----------------------------------------------------------------- actions
\* for current_date in data_df.index: S = ..., sigma = ...
NextDay ==
    /\ pc = "loop"
    /\ Len(data_df) < RowsAfterDropna(n_prices)
    /\ n_prices' = n_prices
    /\ \E d \in StartDates \cup NextDates(current_date),
          s \in Prices, sg \in Vols :
         /\ sg \in VolsOn(d)
         /\ IF data_df = <<>> THEN d \in StartDates
            ELSE d \in NextDates(current_date)
         /\ data_df' = Append(data_df, [Date |-> d, Price |-> s,
                                       Volatility |-> sg])
         /\ current_date' = d
         /\ S' = s
         /\ sigma' = sg
    /\ pc' = "mark"
    /\ act' = "NextDay"
    /\ prev' = Book
    /\ day_end' = Book
    /\ day_steps' = <<>>
    /\ UNCHANGED <<loopVars, positions_to_remove, k, metricVars,
                   pre_roll_shares, premiums>>

\* portfolio_val = cash + shares * S; dates.append; portfolio_value.append
Mark ==
    /\ pc = "mark"
    /\ dates' = Append(dates, current_date)
    /\ portfolio_value' = Append(portfolio_value, PortfolioVal(cash, shares, S))
    /\ positions_to_remove' = <<>>
    /\ k' = 1
    /\ pc' = "expire"
    /\ act' = "Mark"
    /\ prev' = Book
    /\ day_steps' = Append(day_steps, "mark")
    /\ UNCHANGED <<dayVars, cash, shares, positions, metricVars, day_end,
                   pre_roll_shares, premiums>>

\* one iteration of "for pos in positions"
ExpireStep ==
    /\ pc = "expire"
    /\ k <= Len(positions)
    /\ LET r == ExpireOne(cash, shares, positions[k], current_date, S)
       IN  /\ cash' = r.cash
           /\ shares' = r.shares
           /\ positions_to_remove' =
                IF r.remove THEN Append(positions_to_remove, positions[k])
                ELSE positions_to_remove
    /\ k' = k + 1
    /\ act' = "ExpireStep"
    /\ prev' = Book
    /\ UNCHANGED <<dayVars, portfolio_value, dates, positions, pc,
                   metricVars, day_end, day_steps, pre_roll_shares, premiums>>

\* for pos in positions_to_remove: positions.remove(pos)
RemoveStep ==
    /\ pc = "expire"
    /\ k > Len(positions)
    /\ positions' = RemoveExpired(positions, positions_to_remove)
    /\ pc' = "roll"
    /\ act' = "RemoveStep"
    /\ prev' = Book
    /\ day_steps' = Append(day_steps, "resolve")
    /\ UNCHANGED <<dayVars, cash, shares, portfolio_value, dates,
                   positions_to_remove, k, metricVars, day_end,
                   pre_roll_shares, premiums>>

\* "if current_date in monthly_dates" is false
NoRoll ==
    /\ pc = "roll"
    /\ current_date \notin monthly_dates
    /\ pc' = "loop"
    /\ act' = "NoRoll"
    /\ prev' = Book
    /\ UNCHANGED <<dayVars, loopVars, positions_to_remove, k, metricVars,
                   day_end, day_steps, pre_roll_shares, premiums>>

\* "if current_date in monthly_dates: if shares == 0: ..."
Acquire ==
    /\ pc = "roll"
    /\ current_date \in monthly_dates
    /\ LET r == AcquireShares(cash, shares, S)
       IN  /\ cash' = r.cash
           /\ shares' = r.shares
    /\ pre_roll_shares' = shares
    /\ pc' = "write"
    /\ act' = "Acquire"
    /\ prev' = Book
    /\ day_steps' = Append(day_steps, "roll")
    /\ UNCHANGED <<dayVars, portfolio_value, dates, positions,
                   positions_to_remove, k, metricVars, day_end, premiums>>

\* T, K, call_premium, positions.append, cash += call_premium
WriteCall ==
    /\ pc = "write"
    /\ positions' = Append(positions,
                           [expiration_date |-> ExpirationDate(current_date),
                            K |-> Strike(S)])
    /\ cash' = cash + CallPremium(S, sigma)
    /\ premiums' = Append(premiums, [date |-> current_date,
                                     amount |-> CallPremium(S, sigma)])
    /\ pc' = "loop"
    /\ act' = "WriteCall"
    /\ prev' = Book
    /\ UNCHANGED <<dayVars, shares, portfolio_value, dates,
                   positions_to_remove, k, metricVars, day_end, day_steps,
                   pre_roll_shares>>

\* data_df.index is exhausted
EndLoop ==
    /\ pc = "loop"
    /\ Len(data_df) = RowsAfterDropna(n_prices)
    /\ pc' = "prepare"
    /\ act' = "EndLoop"
    /\ prev' = Book
    /\ UNCHANGED <<dayVars, loopVars, positions_to_remove, k, metricVars,
                   day_end, day_steps, pre_roll_shares, premiums>>

\* portfolio_df, initial_investment = ... data_df['Price'].iloc[0]:
\* an empty data_df raises IndexError
Prepare ==
    /\ pc = "prepare"
    /\ IF data_df = <<>>
       THEN fault' = "IndexError" /\ pc' = "done"
       ELSE fault' = fault /\ pc' = "total"
    /\ act' = "Prepare"
    /\ prev' = Book
    /\ UNCHANGED <<dayVars, loopVars, positions_to_remove, k,
                   covered_call_return, buy_and_hold_return, days,
                   annualized_covered_call_return,
                   annualized_buy_and_hold_return,
                   day_end, day_steps, pre_roll_shares, premiums>>

\* covered_call_return, buy_and_hold_return
TotalReturns ==
    /\ pc = "total"
    /\ covered_call_return' =
         NpDiv(Last(portfolio_value) - portfolio_value[1], portfolio_value[1])
    /\ buy_and_hold_return' =
         NpDiv(shares_per_contract * Last(data_df).Price
                 - shares_per_contract * data_df[1].Price,
               shares_per_contract * data_df[1].Price)
    /\ pc' = "annual"
    /\ act' = "TotalReturns"
    /\ prev' = Book
    /\ UNCHANGED <<dayVars, loopVars, positions_to_remove, k, days,
                   annualized_covered_call_return,
                   annualized_buy_and_hold_return, fault,
                   day_end, day_steps, pre_roll_shares, premiums>>

\* days, years, annualized returns: "1 / years" is a Python float division,
\* which raises ZeroDivisionError when years == 0.0
AnnualizedReturns ==
    /\ pc = "annual"
    /\ days' = Last(dates) - dates[1]
    /\ IF days' = 0
       THEN /\ fault' = "ZeroDivisionError"
            /\ UNCHANGED <<annualized_covered_call_return,
                           annualized_buy_and_hold_return>>
       ELSE /\ fault' = fault
            /\ annualized_covered_call_return' = Annualize(covered_call_return)
            /\ annualized_buy_and_hold_return' = Annualize(buy_and_hold_return)
    /\ pc' = "done"
    /\ act' = "AnnualizedReturns"
    /\ prev' = Book
    /\ UNCHANGED <<dayVars, loopVars, positions_to_remove, k,
                   covered_call_return, buy_and_hold_return,
                   day_end, day_steps, pre_roll_shares, premiums>>

Next ==
    \/ NextDay
    \/ Mark
    \/ ExpireStep
    \/ RemoveStep
    \/ NoRoll
    \/ Acquire
    \/ WriteCall
    \/ EndLoop
    \/ Prepare
    \/ TotalReturns
    \/ AnnualizedReturns

Spec == Init /\ [][Next]_vars

\* ------------------------------------------------------------ properties
NRows == Len(data_df)

\* the price was 100 on every simulated day so far
Flat == \A j \in 1..NRows : data_df[j].Price = 100

\* the premiums received on days before day d
RECURSIVE SumBefore(_, _)
SumBefore(q, d) ==
    IF q = <<>> THEN 0
    ELSE (IF Head(q).date < d THEN Head(q).amount ELSE 0)
         + SumBefore(Tail(q), d)

\* the row reached is the first trading day of its calendar month among the
\* rows of the sequence (rows after the first, whose predecessor is known)
FirstTradingDayOfMonth ==
    /\ NRows >= 2
    /\ MonthOf(data_df[NRows - 1].Date) # MonthOf(data_df[NRows].Date)

LaterTradingDayOfMonth ==
    /\ NRows >= 2
    /\ MonthOf(data_df[NRows - 1].Date) = MonthOf(data_df[NRows].Date)

\* C1: the list of open obligations never holds more than one entry.
C1_AtMostOneOpen == Len(positions) <= 1

\* C2: shares is 0 or shares_per_contract in every reachable state.
C2_SharesZeroOrContract == shares \in {0, shares_per_contract}

C2_Witness ==
    /\ act = "ExpireStep"
    /\ prev.shares = shares_per_contract
    /\ shares = 0

\* C3: a call is written on day D exactly when D is the first trading day of
\* its calendar month in the trading-day sequence.
C3_WrittenIffFirstTradingDay ==
    /\ (act = "WriteCall" /\ NRows >= 2) => FirstTradingDayOfMonth
    /\ act = "NoRoll" => ~FirstTradingDayOfMonth

\* C4 (as stated): with the price constant at 100, once the loop has ended
\* after a roll on an earlier day, the last portfolio value is
\* 100 * shares_per_contract plus all premiums received.
C4_OriginalFinalValue ==
    (/\ pc = "prepare"
     /\ Flat
     /\ premiums # <<>>
     /\ premiums[1].date < current_date)
    => Last(portfolio_value)
         = 100 * shares_per_contract * Unit + SumAmounts(premiums)

\* C4 (amended): with the price constant at 100 no exercise fires, shares
\* stay at shares_per_contract from the first roll onwards, and the last
\* recorded portfolio value is the sum of the premiums received on days
\* before the day it was recorded.
C4_FlatFinalValue ==
    Flat =>
      /\ act = "ExpireStep" => (cash = prev.cash /\ shares = prev.shares)
      /\ premiums # <<>> => shares = shares_per_contract
      /\ portfolio_value # <<>> =>
           Last(portfolio_value) = SumBefore(premiums, Last(dates))

C4_Witness ==
    /\ pc = "prepare"
    /\ Flat
    /\ Len(premiums) >= 2
    /\ SumBefore(premiums, Last(dates)) > 0
    /\ Last(premiums).date < Last(dates)
    /\ shares = shares_per_contract

\* C5: when the obligation the expiration loop looks at is due and the price
\* is strictly above its strike, cash grows by the shares held before times
\* the strike, shares become 0, and the obligation is removed when the
\* day's resolution ends.
C5_ExerciseEffect ==
    /\ (/\ act = "ExpireStep"
        /\ IsDue(current_date, positions[k - 1])
        /\ S * Unit > positions[k - 1].K)
       => /\ cash = prev.cash + prev.shares * positions[k - 1].K
          /\ shares = 0
          /\ \E j \in 1..Len(positions_to_remove) :
               positions_to_remove[j] = positions[k - 1]
    /\ act = "RemoveStep"
       => \A j \in 1..Len(positions_to_remove) :
            \A m \in 1..Len(positions) :
               positions[m] # positions_to_remove[j]

C5_Witness ==
    /\ act = "RemoveStep"
    /\ positions_to_remove # <<>>
    /\ S * Unit > positions_to_remove[1].K
    /\ shares = 0
    /\ cash = day_end.cash + shares_per_contract * positions_to_remove[1].K

\* C6: right after a day's expiration resolution, resolving again on the
\* same day at the same price changes neither cash, shares nor the open
\* obligations.
C6_ResolveIdempotent ==
    pc = "roll" =>
      LET once == ResolveExpirations(day_end.cash, day_end.shares,
                                     day_end.positions, current_date, S)
          twice == ResolveExpirations(once.cash, once.shares, once.positions,
                                      current_date, S)
      IN  /\ once = Book
          /\ twice = once

C6_Witness ==
    /\ pc = "roll"
    /\ Len(positions_to_remove) = 2
    /\ shares = 0
    /\ day_end.shares = shares_per_contract

\* C7: the value recorded for a day is cash + shares * S of the cash and
\* shares left by the previous day's step; the day's phases come in the
\* order mark, resolve, roll.
C7_MarkBeforeResolveAndRoll ==
    /\ pc = "mark" => Book = day_end
    /\ pc \in {"expire", "roll", "write"} =>
         /\ Len(portfolio_value) = NRows
         /\ Len(dates) = NRows
         /\ Last(dates) = current_date
         /\ Last(portfolio_value)
              = day_end.cash + day_end.shares * S * Unit
    /\ day_steps \in {<<>>, <<"mark">>, <<"mark", "resolve">>,
                      <<"mark", "resolve", "roll">>}

C7_Witness ==
    /\ act = "WriteCall"
    /\ day_steps = <<"mark", "resolve", "roll">>
    /\ day_end.shares = shares_per_contract
    /\ shares = shares_per_contract
    /\ cash # day_end.cash
    /\ positions_to_remove # <<>>
    /\ prev.cash # day_end.cash
    /\ Last(portfolio_value) # 0

\* C8: shares are acquired on a roll date only when none were held, and at
\* the moment a call is written shares equals shares_per_contract.
C8_AcquireOnlyWhenFlat ==
    /\ (act = "Acquire" /\ (shares # prev.shares \/ cash # prev.cash))
       => (prev.shares = 0 /\ shares = shares_per_contract)
    /\ act = "WriteCall" => shares = shares_per_contract

C8_Witness ==
    /\ act = "WriteCall"
    /\ pre_roll_shares = 0
    /\ Len(premiums) >= 2

\* C9 (as stated): a new obligation is written only when no shares were
\* held just before that roll's acquisition.
C9_OriginalWrittenOnlyWhenFlat ==
    act = "WriteCall" => pre_roll_shares = 0

\* C9 (amended): a new obligation is written on every roll date, whether or
\* not shares were held just before the acquisition, and every earlier
\* obligation still open when it is written expires after that day.
C9_WrittenEveryRoll ==
    /\ pc = "write" => current_date \in monthly_dates
    /\ act = "WriteCall" =>
         /\ positions = Append(prev.positions,
                               [expiration_date |->
                                  current_date + ExpirationDays,
                                K |-> Strike(S)])
         /\ \A j \in 1..Len(prev.positions) :
              prev.positions[j].expiration_date > current_date
    /\ (act \in {"NoRoll", "WriteCall"} /\ current_date \in monthly_dates)
       => act = "WriteCall"

C9_Witness ==
    /\ act = "WriteCall"
    /\ pre_roll_shares = shares_per_contract
    /\ prev.positions = <<>>
    /\ Len(premiums) >= 2

\* C10: when the first and the last sample are on the same date the
\* annualized-return computation ends with an undefined value and without
\* a division fault.
C10_ZeroYearsUndefined ==
    (pc = "done" /\ dates # <<>> /\ Last(dates) = dates[1])
    => /\ fault = "none"
       /\ annualized_covered_call_return.kind = "nan"

\* the loop has ended
LoopDone == pc \in {"prepare", "total", "annual", "done"}

\* the index in positions_to_remove of the in-the-money obligations
InMoneyRemoved ==
    {j \in 1..Len(positions_to_remove) : S * Unit > positions_to_remove[j].K}

\* the obligation written on the day a premium entry e was received
WrittenObligation(e) ==
    LET j == CHOOSE i \in 1..NRows : data_df[i].Date = e.date
    IN  [expiration_date |-> e.date + ExpirationDays,
         K |-> Strike(data_df[j].Price)]

\* C11: with fewer than window_size + 1 prices the run ends without an
\* exception, with nothing simulated and cash and shares at their initial
\* values.
C11_InsufficientDataEmptyResult ==
    (n_prices < window_size + 1 /\ pc = "done")
    => /\ fault = "none"
       /\ portfolio_value = <<>>
       /\ dates = <<>>
       /\ cash = 0
       /\ shares = 0

\* C12: a call is never priced and written with a volatility that is not
\* strictly positive: the run faults there and cash gets no premium.
C12_ZeroVolatilityFaults ==
    (act = "WriteCall" /\ sigma <= 0)
    => /\ fault # "none"
       /\ cash = prev.cash
       /\ positions = prev.positions

\* C13: an obligation is removed on the first simulated day on or after its
\* expiration date: not on an earlier day, and it is not open once the step
\* of such a day has finished.
C13_RemovedOnFirstDueDay ==
    /\ ((pc = "loop" \/ LoopDone) /\ NRows >= 1)
       => \A j \in 1..Len(positions) :
            positions[j].expiration_date > current_date
    /\ act = "RemoveStep"
       => /\ \A j \in 1..Len(prev.positions) :
               (\E m \in 1..Len(positions) : positions[m] = prev.positions[j])
               <=> prev.positions[j].expiration_date > current_date
          /\ \A j \in 1..Len(positions_to_remove) :
               /\ positions_to_remove[j].expiration_date <= current_date
               /\ positions_to_remove[j].expiration_date
                    > data_df[NRows - 1].Date

C13_Witness ==
    /\ act = "RemoveStep"
    /\ Len(prev.positions) = 2
    /\ Len(positions) = 1
    /\ positions_to_remove[1].expiration_date = current_date

\* C14: when the obligation the expiration loop looks at is due and the
\* price is at or below its strike, the obligation is removed and cash and
\* shares stay as they were.
C14_LapseEffect ==
    /\ (/\ act = "ExpireStep"
        /\ positions[k - 1].expiration_date <= current_date
        /\ S * Unit <= positions[k - 1].K)
       => /\ cash = prev.cash
          /\ shares = prev.shares
          /\ Last(positions_to_remove) = positions[k - 1]
    /\ act = "RemoveStep"
       => \A j \in 1..Len(positions_to_remove) :
            ~(\E m \in 1..Len(positions) :
                positions[m] = positions_to_remove[j])

C14_Witness ==
    /\ act = "RemoveStep"
    /\ Len(positions_to_remove) = 1
    /\ S * Unit = positions_to_remove[1].K
    /\ shares = shares_per_contract
    /\ positions = <<>>

\* C15: a day that is no roll date and on which no open obligation is due
\* leaves cash, shares and the open obligations as the previous day left
\* them; every finished day has appended one date and one value.
C15_QuietDayFrame ==
    /\ (/\ act = "NoRoll"
        /\ \A j \in 1..Len(day_end.positions) :
             day_end.positions[j].expiration_date > current_date)
       => /\ Book = day_end
          /\ Last(dates) = current_date
          /\ Last(portfolio_value)
               = day_end.cash + day_end.shares * S * Unit
    /\ pc = "loop" => (Len(portfolio_value) = NRows /\ Len(dates) = NRows)

C15_Witness ==
    /\ act = "NoRoll"
    /\ positions # <<>>
    /\ Book = day_end
    /\ shares = shares_per_contract
    /\ Len(portfolio_value) >= 2

\* C16: the loop ends after every row was processed once, in date order;
\* an obligation expiring after the last day is still open then, and no
\* later step changes cash, shares or the open obligations.
C16_LoopEndsNoForcedResolution ==
    /\ LoopDone =>
         /\ NRows = RowsAfterDropna(n_prices)
         /\ Len(dates) = NRows
         /\ Len(portfolio_value) = NRows
         /\ \A j \in 1..NRows :
              /\ dates[j] = data_df[j].Date
              /\ j > 1 => dates[j - 1] < dates[j]
         /\ \A j \in 1..Len(premiums) :
              premiums[j].date + ExpirationDays > current_date
              => \E m \in 1..Len(positions) :
                   positions[m] = WrittenObligation(premiums[j])
    /\ act \in {"EndLoop", "Prepare", "TotalReturns", "AnnualizedReturns"}
       => Book = prev
    /\ (pc = "loop" /\ NRows = RowsAfterDropna(n_prices)) => ENABLED EndLoop
    /\ (pc = "loop" /\ NRows < RowsAfterDropna(n_prices)) => ENABLED NextDay
    /\ pc # "done" => ENABLED Next

C16_Witness ==
    /\ pc = "done"
    /\ fault = "none"
    /\ NRows = 3
    /\ positions # <<>>
    /\ Len(premiums) > Len(positions)

\* C17: the first recorded portfolio value is 0, so the strategy's total
\* return always divides by 0.
C17_FirstValueZero ==
    /\ portfolio_value # <<>> => portfolio_value[1] = 0
    /\ act = "TotalReturns"
       => covered_call_return.kind \in {"nan", "inf", "-inf"}

C17_Witness ==
    /\ act = "TotalReturns"
    /\ Last(portfolio_value) > 0
    /\ covered_call_return.kind = "inf"

\* C18: at the end of every day's step, an open obligation implies that
\* shares equals shares_per_contract.
C18_OpenCallCovered ==
    (pc = "loop" /\ positions # <<>>) => shares = shares_per_contract

\* C19: when several obligations are due on one day and the price is above
\* more than one strike, cash rises by shares_per_contract times the strike
\* of the earliest-written one of them only; the later ones add 0.
C19_OneExercisePerDay ==
    /\ (/\ act = "ExpireStep"
        /\ \E j \in 1..(k - 2) :
             /\ positions[j].expiration_date <= current_date
             /\ S * Unit > positions[j].K)
       => cash = prev.cash
    /\ (act = "RemoveStep" /\ Cardinality(InMoneyRemoved) >= 2)
       => \E j \in InMoneyRemoved :
            /\ \A m \in InMoneyRemoved :
                 positions_to_remove[j].expiration_date
                   <= positions_to_remove[m].expiration_date
            /\ cash = day_end.cash
                        + shares_per_contract * positions_to_remove[j].K

C19_Witness ==
    /\ act = "RemoveStep"
    /\ Cardinality(InMoneyRemoved) = 2
    /\ positions_to_remove[1].K # positions_to_remove[2].K
    /\ cash # day_end.cash

====
